---- MODULE Spec2Model ----
(***************************************************************************)
(* Model of the multi-retriever fusion engine of PAI-RAG                   *)
(* (src/pai_rag/integrations/retrievers/fusion_retriever.py) and of its    *)
(* multi-modal query engine                                                *)
(* (src/pai_rag/integrations/query_engine/multi_modal_query_engine.py).    *)
(*                                                                         *)
(* Scores are exact rationals <<n, d>> (d > 0, lowest terms); the unset    *)
(* score None is <<0, 0>>.  A node is [id, content, score]; id stands for  *)
(* the identity of the NodeWithScore object.  A Python dict is a sequence  *)
(* of [key, val] records in insertion order.                               *)
(***************************************************************************)
EXTENDS Integers, Sequences, FiniteSets, TLC

VARIABLES
    mode,               \* self.mode
    num_queries,        \* self.num_queries
    similarity_top_k,   \* self.similarity_top_k
    entry,              \* which entry point runs: _aretrieve, or _retrieve with use_async True / False
    retriever_weights,  \* self._retriever_weights
    pc,                 \* position of the invocation
    queries,            \* local `queries` of _retrieve / _aretrieve (query strings)
    task_queries,       \* local `task_queries` of the fan-out
    task_results,       \* the slots of gather: Pending, or the list stored for the task
    call_out,           \* per issued call: Pending, the list it returned, or Failed
    reordered,          \* whether some call completed before a call dispatched earlier
    results,            \* the dict (query_str, retriever index) -> result list
    normalized,         \* per result list, the node scores right after scaling to [0, 1]
    fused,              \* the list the fusion strategy returned, before truncation
    output,             \* the list returned to the caller
    outcome,            \* "none" | "returned" | "raised"
    error,              \* the exception raised, if any
    weights_arg,        \* the retriever_weights argument of __init__
    llm_calls,          \* the calls of self._llm.complete so far: [ok, text] each
    rec_nodes,          \* _ahandle_recursive_retrieval: its argument `nodes`
    rec_i,              \* the number of nodes its loop has handled
    retrieved_nodes,    \* its local `retrieved_nodes`
    nested_calls,       \* its calls of _aretrieve_from_object: [pos, score, nodes] each
    eng_args,           \* query engine: the arguments of __init__ and whether the default
                        \* multi-modal client can be imported
    eng_multi_modal_llm, \* self._multi_modal_llm: "unset" | "given" | "openai_default"
    eng_llm,            \* self._llm: "unset" | "none" | "given"
    eng_stream,         \* self._stream
    need_image,         \* self._retriever._need_image
    synth_entry,        \* the synthesis entry point called: "none" | "synthesize" | "asynthesize"
    client_calls,       \* the calls made to an inference client: [client, method] each
    response,           \* the response object returned: "none" | "Response" | "AsyncStreamingResponse"
    node_postprocessors, \* self._node_postprocessors
    eng_nodes,          \* the node list the retriever returns to the engine
    partitions,         \* the calls of _get_image_and_text_nodes so far: its argument and
                        \* its locals at the return
    post_calls,         \* the calls of postprocess_nodes so far: [postprocessor, nodes] each
    prompt,             \* the context_str the prompt is formatted with and the
                        \* image_documents of the inference call
    resp_attrs          \* the attributes of the response object: [source_nodes, metadata]

vars == <<mode, num_queries, similarity_top_k, entry, retriever_weights, pc, queries,
          task_queries, task_results, call_out, reordered, results, normalized,
          fused, output, outcome, error, weights_arg, llm_calls,
          rec_nodes, rec_i, retrieved_nodes, nested_calls,
          eng_args, eng_multi_modal_llm, eng_llm, eng_stream, need_image,
          synth_entry, client_calls, response,
          node_postprocessors, eng_nodes, partitions, post_calls, prompt, resp_attrs>>

\* the state of the query engine
engine == <<eng_args, eng_multi_modal_llm, eng_llm, eng_stream, need_image,
            synth_entry, client_calls, response,
            node_postprocessors, eng_nodes, partitions, post_calls, prompt, resp_attrs>>

\* the state of the recursive expansion
recursion == <<rec_nodes, rec_i, retrieved_nodes, nested_calls>>

-----------------------------------------------------------------------------
(* Bounds of the model *)

MaxNumQueries == 2      \* num_queries ranges over 1..MaxNumQueries
MaxTopK == 2            \* similarity_top_k ranges over 0..MaxTopK
MaxNodes == 3           \* most nodes in the result lists of the exhaustive fusion inputs
MaxNormLen == 3         \* longest result list of the normalization inputs
MaxTextLen == 5         \* longest response text of the LLM in the expansion inputs
MaxWeights == 3         \* longest retriever_weights list of the construction inputs
MaxDistLen == 11        \* longest result list of the distance-based normalization inputs
MaxRecNodes == 2        \* longest node list handed to the recursive expansion
MaxRankLen == 10        \* longest result list of the ranking inputs that is tried at every rank

-----------------------------------------------------------------------------
(* Rational arithmetic *)

Abs(x) == IF x < 0 THEN -x ELSE x

Min2(a, b) == IF a <= b THEN a ELSE b

RECURSIVE GCD(_, _)
GCD(a, b) == IF b = 0 THEN a ELSE GCD(b, a % b)

Rat(n, d) ==
    IF d < 0
    THEN <<(-n) \div GCD(Abs(n), -d), (-d) \div GCD(Abs(n), -d)>>
    ELSE <<n \div GCD(Abs(n), d), d \div GCD(Abs(n), d)>>

LCM(a, b) == (a \div GCD(a, b)) * b

RAdd(x, y) ==
    LET l == LCM(x[2], y[2])
    IN  Rat(x[1] * (l \div x[2]) + y[1] * (l \div y[2]), l)
RNeg(x) == <<-x[1], x[2]>>
RSub(x, y) == RAdd(x, RNeg(y))
RMul(x, y) == Rat(x[1] * y[1], x[2] * y[2])
RDiv(x, y) == Rat(x[1] * y[2], x[2] * y[1])
RLt(x, y) ==
    LET l == LCM(x[2], y[2])
    IN  x[1] * (l \div x[2]) < y[1] * (l \div y[2])
RLeq(x, y) == ~RLt(y, x)
RInt(n) == <<n, 1>>
Zero == <<0, 1>>
One == <<1, 1>>

None == <<0, 0>>
IsNone(s) == s[2] = 0

\* `x.score or 0.0`
ScoreOrZero(s) == IF IsNone(s) THEN Zero ELSE s

\* sum(seq): the additions are exact, so their order makes no difference, and the
\* two halves of the list are summed separately
RECURSIVE RSum(_)
RSum(seq) ==
    IF seq = <<>> THEN Zero
    ELSE IF Len(seq) = 1 THEN seq[1]
    ELSE RAdd(RSum(SubSeq(seq, 1, Len(seq) \div 2)),
              RSum(SubSeq(seq, (Len(seq) \div 2) + 1, Len(seq))))

\* x ** 0.5 of a rational x >= 0.  Floating point is modelled as fixed point: the
\* root is rounded down to a multiple of 1 / SqrtScale.
SqrtScale == 10 * 10

\* the greatest r with r * r <= x; 46340 is the greatest r whose square fits
ISqrt(x) ==
    CHOOSE r \in 0..Min2(x, 46340) :
        r * r <= x /\ (r = 46340 \/ x < (r + 1) * (r + 1))

RSqrt(x) == Rat(ISqrt((x[1] * SqrtScale * SqrtScale) \div x[2]), SqrtScale)

-----------------------------------------------------------------------------
(* Python built-ins *)

Range(seq) == {seq[i] : i \in DOMAIN seq}

\* sorted(seq, key=..., reverse=True) on a sequence of [k, v] records: stable, so
\* an element goes after every element with a greater key and after the earlier
\* elements with an equal key.
SortedPos(seq, i) ==
    1 + Cardinality({j \in DOMAIN seq : RLt(seq[i].k, seq[j].k)})
      + Cardinality({j \in DOMAIN seq : j < i /\ seq[j].k = seq[i].k})

SortedDesc(seq) ==
    [p \in DOMAIN seq |-> seq[CHOOSE i \in DOMAIN seq : SortedPos(seq, i) = p].v]

\* lst[:k] for k >= 0
Slice(lst, k) == SubSeq(lst, 1, Min2(k, Len(lst)))

\* dict helpers: a dict is a sequence of [key, val] in insertion order
DictHas(d, key) == \E i \in DOMAIN d : d[i].key = key
DictIdx(d, key) == CHOOSE i \in DOMAIN d : d[i].key = key
DictGet(d, key) == d[DictIdx(d, key)].val
DictPut(d, key, val) ==
    IF DictHas(d, key)
    THEN [d EXCEPT ![DictIdx(d, key)] = [key |-> key, val |-> val]]
    ELSE Append(d, [key |-> key, val |-> val])
DictValues(d) == [i \in DOMAIN d |-> d[i].val]

RECURSIVE Concat(_)
Concat(lists) == IF lists = <<>> THEN <<>> ELSE lists[1] \o Concat(Tail(lists))

-----------------------------------------------------------------------------
(* Fusion strategies.  Each returns [err, nodes]: err is NoError when it      *)
(* returns `nodes`, and the exception <<type, message detail>> it raises      *)
(* otherwise.                                                                 *)

RRF_K == 60

NoError == <<"", "">>

TypeError == <<"TypeError", "">>

Returned(nodes) == [err |-> NoError, nodes |-> nodes]
Raised(exc) == [err |-> exc, nodes |-> <<>>]

\* sorted(nodes_with_scores, key=lambda x: x.score or 0.0, reverse=True)
SortByScore(nodes) ==
    SortedDesc([i \in DOMAIN nodes |-> [k |-> ScoreOrZero(nodes[i].score), v |-> nodes[i]]])

\* the reciprocal of the 1-based rank, without k
RRFTermWithoutK(rank) == Rat(1, rank + 1)

\* a rank counted from 1
RRFTermOneBased(rank) == Rat(1, rank + 1 + RRF_K)

\* fused_scores[text] += 1.0 / (rank + k), rank 0-based
RRFTerm(rank) == Rat(1, rank + RRF_K)

\* the inner loop of _reciprocal_rerank_fusion over one sorted list:
\*     text_to_node[text] = node_with_score
\*     if text not in fused_scores: fused_scores[text] = 0.0
\*     fused_scores[text] += 1.0 / (rank + k)
RECURSIVE RRFList(_, _, _)
RRFList(sorted, rank, acc) ==
    IF rank >= Len(sorted) THEN acc
    ELSE IF DictHas(acc.fused_scores, sorted[rank + 1].content)
    THEN RRFList(sorted, rank + 1,
            [fused_scores |-> DictPut(acc.fused_scores, sorted[rank + 1].content,
                                 RAdd(DictGet(acc.fused_scores, sorted[rank + 1].content),
                                      RRFTerm(rank))),
             text_to_node |-> DictPut(acc.text_to_node, sorted[rank + 1].content,
                                      sorted[rank + 1])])
    ELSE RRFList(sorted, rank + 1,
            [fused_scores |-> DictPut(acc.fused_scores, sorted[rank + 1].content,
                                 RAdd(Zero, RRFTerm(rank))),
             text_to_node |-> DictPut(acc.text_to_node, sorted[rank + 1].content,
                                      sorted[rank + 1])])

\* the outer loop over results.values()
RECURSIVE RRFLists(_, _)
RRFLists(lists, acc) ==
    IF lists = <<>> THEN acc
    ELSE RRFLists(Tail(lists), RRFList(SortByScore(lists[1]), 0, acc))

ReciprocalRerankFusion(res) ==
    LET acc == RRFLists(DictValues(res), [fused_scores |-> <<>>, text_to_node |-> <<>>])
        reranked == SortedDesc([i \in DOMAIN acc.fused_scores |->
                                   [k |-> acc.fused_scores[i].val, v |-> acc.fused_scores[i]]])
    IN  Returned([i \in DOMAIN reranked |->
                    [DictGet(acc.text_to_node, reranked[i].key) EXCEPT !.score = reranked[i].val]])

\* min(scores), max(scores)
MinOf(ss) == CHOOSE s \in Range(ss) : \A t \in Range(ss) : RLeq(s, t)
MaxOf(ss) == CHOOSE s \in Range(ss) : \A t \in Range(ss) : RLeq(t, s)

ScoresOf(nodes) == [i \in DOMAIN nodes |-> nodes[i].score]

\* mean_score, std_dev, and the bounds mean -/+ 3 * std_dev
DistBounds(ss) ==
    LET n == RInt(Len(ss))
        mean_score == RDiv(RSum(ss), n)
        sq == [i \in DOMAIN ss |-> RMul(RSub(ss[i], mean_score), RSub(ss[i], mean_score))]
        std_dev == RSqrt(RDiv(RSum(sq), n))
    IN  <<RSub(mean_score, RMul(RInt(3), std_dev)), RAdd(mean_score, RMul(RInt(3), std_dev))>>

\* min_max_scores[query_tuple] of one result list
MinMaxOf(nodes, dist_based) ==
    IF nodes = <<>> THEN <<Zero, Zero>>
    ELSE IF dist_based THEN DistBounds(ScoresOf(nodes))
    ELSE <<MinOf(ScoresOf(nodes)), MaxOf(ScoresOf(nodes))>>

\* a constant list of zero scores scaled to 1.0
NormalizeScoreGeq(score, mm) ==
    IF mm[2] = mm[1]
    THEN IF RLeq(Zero, mm[2]) THEN One ELSE Zero
    ELSE RDiv(RSub(score, mm[1]), RSub(mm[2], mm[1]))

\* "Scale the score to be between 0 and 1"
NormalizeScore(score, mm) ==
    IF mm[2] = mm[1]
    THEN IF RLt(Zero, mm[2]) THEN One ELSE Zero
    ELSE RDiv(RSub(score, mm[1]), RSub(mm[2], mm[1]))

\* the scores of one result list after scaling, before weighting
NormalizedList(nodes, dist_based) ==
    [i \in DOMAIN nodes |-> NormalizeScore(nodes[i].score, MinMaxOf(nodes, dist_based))]

\* "Scale by the weight of the retriever", "Divide by the number of queries"
WeightScore(norm, retriever_idx) ==
    RDiv(RMul(norm, retriever_weights[retriever_idx + 1]), RInt(num_queries))

\* the second loop: the result lists with every node's score rewritten in place
ScaledResults(res, dist_based) ==
    [e \in DOMAIN res |->
        [key |-> res[e].key,
         val |-> [i \in DOMAIN res[e].val |->
                    [res[e].val[i] EXCEPT !.score =
                        WeightScore(NormalizedList(res[e].val, dist_based)[i], res[e].key[2])]]]]

\* the third loop: all_nodes[text].score += node_with_score.score
RECURSIVE SumByContent(_, _)
SumByContent(nodes, all_nodes) ==
    IF nodes = <<>> THEN all_nodes
    ELSE IF DictHas(all_nodes, nodes[1].content)
    THEN SumByContent(Tail(nodes),
            DictPut(all_nodes, nodes[1].content,
                    [DictGet(all_nodes, nodes[1].content) EXCEPT
                        !.score = RAdd(DictGet(all_nodes, nodes[1].content).score,
                                       nodes[1].score)]))
    ELSE SumByContent(Tail(nodes), DictPut(all_nodes, nodes[1].content, nodes[1]))

AllNodes(res) == Concat(DictValues(res))

\* min / max / sum / comparison of a score that is None raises TypeError
HasNoneScore(res) == \E i \in DOMAIN AllNodes(res) : IsNone(AllNodes(res)[i].score)

\* without the `if not nodes_with_scores` guard: min([]) raises ValueError and
\* sum([]) / len([]) raises ZeroDivisionError
RelativeScoreFusionUnguarded(res, dist_based) ==
    IF \E e \in DOMAIN res : res[e].val = <<>>
    THEN Raised(IF dist_based THEN <<"ZeroDivisionError", "">> ELSE <<"ValueError", "">>)
    ELSE IF HasNoneScore(res) THEN Raised(TypeError)
    ELSE Returned(SortByScore(DictValues(
            SumByContent(AllNodes(ScaledResults(res, dist_based)), <<>>))))

RelativeScoreFusion(res, dist_based) ==
    IF HasNoneScore(res) THEN Raised(TypeError)
    ELSE Returned(SortByScore(DictValues(
            SumByContent(AllNodes(ScaledResults(res, dist_based)), <<>>))))

\* the loop of _simple_fusion; max(a, b) with a None operand raises TypeError
RECURSIVE MaxByContent(_, _)
MaxByContent(nodes, all_nodes) ==
    IF nodes = <<>> THEN [err |-> NoError, all_nodes |-> all_nodes]
    ELSE LET n == nodes[1]
         IN  IF DictHas(all_nodes, n.content)
             THEN LET old == DictGet(all_nodes, n.content)
                  IN  IF IsNone(n.score) \/ IsNone(old.score)
                      THEN [err |-> TypeError, all_nodes |-> all_nodes]
                      ELSE MaxByContent(Tail(nodes),
                              DictPut(all_nodes, n.content,
                                 [old EXCEPT !.score =
                                    IF RLt(n.score, old.score) THEN old.score ELSE n.score]))
             ELSE MaxByContent(Tail(nodes), DictPut(all_nodes, n.content, n))

\* de-duplication that keeps the first score seen
RECURSIVE FirstByContent(_, _)
FirstByContent(nodes, all_nodes) ==
    IF nodes = <<>> THEN all_nodes
    ELSE FirstByContent(Tail(nodes),
            IF DictHas(all_nodes, nodes[1].content) THEN all_nodes
            ELSE DictPut(all_nodes, nodes[1].content, nodes[1]))

SimpleFusionKeepFirst(res) == Returned(SortByScore(DictValues(FirstByContent(AllNodes(res), <<>>))))

SimpleFusion(res) ==
    LET r == MaxByContent(AllNodes(res), <<>>)
    IN  IF r.err # NoError THEN Raised(r.err)
        ELSE Returned(SortByScore(DictValues(r.all_nodes)))

NoFusion(res) == Returned(AllNodes(res))

-----------------------------------------------------------------------------
(* Construction, query expansion and the fan-out *)

Modes == {"reciprocal_rerank", "detail_reciprocal_rerank", "relative_score",
          "dist_based_score", "simple", "no_fusion"}

\* a mode string that is no member of FUSION_MODES
InvalidModes == {"bogus"}

Retrievers == {0, 1}
NumRetrievers == Cardinality(Retrievers)

\* __init__: the stored weights
InitWeights(w) ==
    IF w = <<>>
    THEN [i \in 1..NumRetrievers |-> Rat(1, NumRetrievers)]
    ELSE [i \in DOMAIN w |-> RDiv(w[i], RSum(w))]

\* w / total_weight with total_weight = 0
ZeroDivisionError == <<"ZeroDivisionError", "">>

\* __init__ raises: the list comprehension divides its first weight by a zero sum
InitRaises(w) == w # <<>> /\ RSum(w) = Zero

\* retriever_weights arguments: None (written <<>>) or a list
WeightArgs == {<<>>, <<RInt(3), RInt(1)>>}

\* strings are sequences of characters
OriginalQuery == <<"q">>

IsSpace(c) == c = " "

\* str.split("\n"): the pieces between the line feeds, empty pieces included
RECURSIVE SplitFrom(_, _)
SplitFrom(str, piece) ==
    IF str = <<>> THEN <<piece>>
    ELSE IF str[1] = "\n" THEN <<piece>> \o SplitFrom(Tail(str), <<>>)
         ELSE SplitFrom(Tail(str), Append(piece, str[1]))

Split(str) == SplitFrom(str, <<>>)

\* str.strip()
RECURSIVE LStrip(_)
LStrip(str) == IF str # <<>> /\ IsSpace(str[1]) THEN LStrip(Tail(str)) ELSE str

RECURSIVE RStrip(_)
RStrip(str) ==
    IF str # <<>> /\ IsSpace(str[Len(str)]) THEN RStrip(SubSeq(str, 1, Len(str) - 1)) ELSE str

Strip(str) == RStrip(LStrip(str))

\* [q.strip() for q in queries if q.strip()]
RECURSIVE StripNonEmpty(_)
StripNonEmpty(lines) ==
    IF lines = <<>> THEN <<>>
    ELSE IF Strip(lines[1]) # <<>>
         THEN <<Strip(lines[1])>> \o StripNonEmpty(Tail(lines))
         ELSE StripNonEmpty(Tail(lines))

\* a list cut to its first n entries before the blank lines are dropped
GetQueriesCutFirst(text) == StripNonEmpty(Slice(Split(text), num_queries - 1))

\* _get_queries on response.text of the LLM
GetQueries(text) == Slice(StripNonEmpty(Split(text)), num_queries - 1)

\* queries = [query_bundle] + the expansion, the original appended last
ExtendQueriesLast(original, expansion) == expansion \o <<original>>

\* queries = [query_bundle]; queries.extend(expansion)
ExtendQueries(original, expansion) == <<original>> \o expansion

\* response texts of the LLM
LlmResponses ==
    { <<" ">>,
      <<"p", "\n", " ", "q", " ", "\n", "p">>,
      <<" ", "q", "\n", "\n", "p", " ">> }

\* result lists a retriever may return, as [content, score]
ResultLists ==
    { << [content |-> "a", score |-> Rat(9, 10)], [content |-> "b", score |-> Rat(1, 2)] >>,
      << [content |-> "b", score |-> Rat(3, 5)], [content |-> "c", score |-> Rat(3, 10)] >> }

\* the NodeWithScore objects of the list that call `t` returns
MkNodes(t, lst) ==
    [i \in DOMAIN lst |-> [id |-> <<t, i>>, content |-> lst[i].content, score |-> lst[i].score]]

\* the state of a call or of a slot of gather
Pending == [st |-> "pending", nodes |-> <<>>]
Failed == [st |-> "failed", nodes |-> <<>>]
Done(nodes) == [st |-> "done", nodes |-> nodes]

\* task_queries: for query in queries: for i, retriever in enumerate(self._retrievers)
TaskQueries(qs) ==
    [t \in 1..(Len(qs) * NumRetrievers) |->
        <<qs[((t - 1) \div NumRetrievers) + 1], (t - 1) % NumRetrievers>>]

\* asyncio.gather / run_async_tasks: the result of task t goes to slot t
StoreByArrival(tr, t, r) ==
    [tr EXCEPT ![CHOOSE u \in DOMAIN tr : tr[u] = Pending /\ \A v \in 1..(u - 1) : tr[v] # Pending] = r]

StoreTaskResult(tr, t, r) == [tr EXCEPT ![t] = r]

\* for query_tuple, query_result in zip(task_queries, task_results):
\*     results[query_tuple] = query_result
RECURSIVE ZipResults(_, _, _)
ZipResults(tq, tr, res) ==
    IF tq = <<>> \/ tr = <<>> THEN res
    ELSE ZipResults(Tail(tq), Tail(tr), DictPut(res, tq[1], tr[1].nodes))

\* a chain that ends in the no_fusion branch instead of raising
FusionOfElseNoFusion(m, res) ==
    CASE m = "reciprocal_rerank" -> ReciprocalRerankFusion(res)
      [] m = "relative_score" -> RelativeScoreFusion(res, FALSE)
      [] m = "dist_based_score" -> RelativeScoreFusion(res, TRUE)
      [] m = "simple" -> SimpleFusion(res)
      [] OTHER -> NoFusion(res)

\* the if / elif chain of _retrieve and _aretrieve, without the truncation
FusionOf(m, res) ==
    CASE m = "reciprocal_rerank" -> ReciprocalRerankFusion(res)
      [] m = "relative_score" -> RelativeScoreFusion(res, FALSE)
      [] m = "dist_based_score" -> RelativeScoreFusion(res, TRUE)
      [] m = "simple" -> SimpleFusion(res)
      [] m = "no_fusion" -> NoFusion(res)
      [] OTHER -> Raised(<<"ValueError: Invalid fusion mode", m>>)

\* a simple branch that forgets the slice
TruncateNotSimple(m, nodes) ==
    IF m \in {"no_fusion", "simple"} THEN nodes ELSE Slice(nodes, similarity_top_k)

\* [: self.similarity_top_k] on every branch but no_fusion
Truncate(m, nodes) == IF m = "no_fusion" THEN nodes ELSE Slice(nodes, similarity_top_k)

\* the value of node.score right after the scaling of the second loop of
\* _relative_score_fusion, per result list
NormalizedOf(m, res) ==
    IF m \in {"relative_score", "dist_based_score"} /\ ~HasNoneScore(res)
    THEN [e \in DOMAIN res |-> NormalizedList(res[e].val, m = "dist_based_score")]
    ELSE <<>>

\* the tail of _retrieve / _aretrieve once `results` is complete
FuseAndReturn(res) ==
    LET r == FusionOf(mode, res)
    IN  /\ results' = res
        /\ normalized' = NormalizedOf(mode, res)
        /\ fused' = r.nodes
        /\ output' = Truncate(mode, r.nodes)
        /\ outcome' = IF r.err = NoError THEN "returned" ELSE "raised"
        /\ error' = r.err
        /\ pc' = "done"

Raise(exc) ==
    /\ outcome' = "raised"
    /\ error' = exc
    /\ pc' = "done"
    /\ UNCHANGED <<results, normalized, fused, output>>

\* no recursive expansion is running
NoRecursion ==
    /\ rec_nodes = <<>>
    /\ rec_i = 0
    /\ retrieved_nodes = <<>>
    /\ nested_calls = <<>>

\* no query engine exists
EngineIdle ==
    /\ eng_args = [multi_modal_llm |-> "none", llm |-> "none", stream |-> FALSE,
                   openai_package |-> "missing"]
    /\ eng_multi_modal_llm = "unset"
    /\ eng_llm = "unset"
    /\ eng_stream = FALSE
    /\ need_image = FALSE
    /\ synth_entry = "none"
    /\ client_calls = <<>>
    /\ response = "none"
    /\ node_postprocessors = <<>>
    /\ eng_nodes = <<>>
    /\ partitions = <<>>
    /\ post_calls = <<>>
    /\ prompt = [context_str |-> <<>>, image_documents |-> <<>>]
    /\ resp_attrs = [source_nodes |-> <<>>, metadata |-> <<>>]

Config == <<mode, num_queries, similarity_top_k, entry, retriever_weights, weights_arg>>

Entries == {"aretrieve", "retrieve_async", "retrieve_sync"}

Init ==
    /\ mode \in Modes \cup InvalidModes
    /\ num_queries \in 1..MaxNumQueries
    /\ similarity_top_k \in 0..MaxTopK
    /\ entry \in Entries
    /\ weights_arg \in WeightArgs
    /\ retriever_weights = InitWeights(weights_arg)
    /\ llm_calls = <<>>
    /\ NoRecursion
    /\ EngineIdle
    /\ pc = "start"
    /\ queries = <<>>
    /\ task_queries = <<>>
    /\ task_results = <<>>
    /\ call_out = <<>>
    /\ reordered = FALSE
    /\ results = <<>>
    /\ normalized = <<>>
    /\ fused = <<>>
    /\ output = <<>>
    /\ outcome = "none"
    /\ error = NoError

\* queries = [query_bundle]; if num_queries > 1: queries.extend(_get_queries(...));
\* then the tasks of the fan-out are created
Dispatch(qs) ==
    /\ queries' = qs
    /\ task_queries' = TaskQueries(qs)
    /\ task_results' = [t \in 1..(Len(qs) * NumRetrievers) |-> Pending]
    /\ call_out' = [t \in 1..(Len(qs) * NumRetrievers) |-> Pending]
    /\ pc' = "running"
    /\ UNCHANGED <<engine, recursion, Config, reordered, results, normalized, fused, output, outcome, error>>

StartSingle ==
    /\ pc = "start"
    /\ num_queries <= 1
    /\ Dispatch(<<OriginalQuery>>)
    /\ UNCHANGED llm_calls

\* the LLM answers `text`
StartExpandedWith(text) ==
    /\ pc = "start"
    /\ num_queries > 1
    /\ llm_calls' = Append(llm_calls, [ok |-> TRUE, text |-> text])
    /\ Dispatch(ExtendQueries(OriginalQuery, GetQueries(text)))

StartExpanded == \E text \in LlmResponses : StartExpandedWith(text)

\* self._llm.complete raises
ExpandFails ==
    /\ pc = "start"
    /\ num_queries > 1
    /\ llm_calls' = Append(llm_calls, [ok |-> FALSE, text |-> <<>>])
    /\ Raise(<<"LLMError", "">>)
    /\ UNCHANGED <<engine, recursion, Config, queries, task_queries, task_results, call_out, reordered>>

IsAsync == entry \in {"aretrieve", "retrieve_async"}

\* one retriever.aretrieve(query) of the gather completes, in any order
AsyncComplete(t) ==
    /\ pc = "running"
    /\ IsAsync
    /\ call_out[t] = Pending
    /\ \E lst \in ResultLists :
          /\ task_results' = StoreTaskResult(task_results, t, Done(MkNodes(t, lst)))
          /\ call_out' = [call_out EXCEPT ![t] = Done(MkNodes(t, lst))]
    /\ reordered' = (reordered \/ \E u \in 1..(t - 1) : call_out[u] = Pending)
    /\ UNCHANGED <<engine, recursion, Config, llm_calls, pc, queries, task_queries, results, normalized, fused, output,
                   outcome, error>>

\* one retriever.aretrieve(query) raises: gather propagates the first exception
AsyncFails(t) ==
    /\ pc = "running"
    /\ IsAsync
    /\ call_out[t] = Pending
    /\ call_out' = [call_out EXCEPT ![t] = Failed]
    /\ Raise(<<"RetrievalError", "">>)
    /\ UNCHANGED <<engine, recursion, Config, llm_calls, queries, task_queries, task_results, reordered>>

\* gather returns once every task has completed; zip, fuse, return
AsyncFinish ==
    /\ pc = "running"
    /\ IsAsync
    /\ \A t \in DOMAIN call_out : call_out[t] # Pending
    /\ FuseAndReturn(ZipResults(task_queries, task_results, <<>>))
    /\ UNCHANGED <<engine, recursion, Config, llm_calls, queries, task_queries, task_results, call_out, reordered>>

\* _run_sync_queries: the calls run one after the other, in task order
NextSync == CHOOSE t \in DOMAIN call_out :
                /\ call_out[t] = Pending
                /\ \A u \in 1..(t - 1) : call_out[u] # Pending

SyncCall ==
    /\ pc = "running"
    /\ ~IsAsync
    /\ \E t \in DOMAIN call_out : call_out[t] = Pending
    /\ \E lst \in ResultLists :
          /\ call_out' = [call_out EXCEPT ![NextSync] = Done(MkNodes(NextSync, lst))]
          /\ results' = DictPut(results, task_queries[NextSync], MkNodes(NextSync, lst))
    /\ UNCHANGED <<engine, recursion, Config, llm_calls, pc, queries, task_queries, task_results, reordered, normalized, fused, output, outcome, error>>

SyncFails ==
    /\ pc = "running"
    /\ ~IsAsync
    /\ \E t \in DOMAIN call_out : call_out[t] = Pending
    /\ call_out' = [call_out EXCEPT ![NextSync] = Failed]
    /\ Raise(<<"RetrievalError", "">>)
    /\ UNCHANGED <<engine, recursion, Config, llm_calls, queries, task_queries, task_results, reordered>>

SyncFinish ==
    /\ pc = "running"
    /\ ~IsAsync
    /\ \A t \in DOMAIN call_out : call_out[t] # Pending
    /\ FuseAndReturn(results)
    /\ UNCHANGED <<engine, recursion, Config, llm_calls, queries, task_queries, task_results, call_out, reordered>>

Next ==
    \/ StartSingle
    \/ StartExpanded
    \/ ExpandFails
    \/ \E t \in DOMAIN call_out : AsyncComplete(t)
    \/ \E t \in DOMAIN call_out : AsyncFails(t)
    \/ AsyncFinish
    \/ SyncCall
    \/ SyncFails
    \/ SyncFinish

Spec == Init /\ [][Next]_vars

-----------------------------------------------------------------------------
(* The fusion strategies on every small result mapping: the state in which *)
(* the gather of a single-query fan-out has completed with the given lists *)

Contents == {"a", "b"}
FusionScores == {None, Rat(3, 10), Rat(9, 10)}
NormScores == {Rat(-1, 2), Zero, Rat(1, 5), Rat(1, 2), Rat(4, 5)}

\* all result lists of at most n nodes
ListsUpTo(n, cs, ss) ==
    UNION {[1..k -> [content : cs, score : ss]] : k \in 0..n}

Gathered(m, l1, l2) ==
    /\ mode = m
    /\ num_queries = 1
    /\ similarity_top_k = MaxTopK
    /\ entry = "aretrieve"
    /\ weights_arg = <<RInt(3), RInt(1)>>
    /\ retriever_weights = InitWeights(weights_arg)
    /\ llm_calls = <<>>
    /\ NoRecursion
    /\ EngineIdle
    /\ pc = "running"
    /\ queries = <<OriginalQuery>>
    /\ task_queries = TaskQueries(<<OriginalQuery>>)
    /\ task_results = <<Done(MkNodes(1, l1)), Done(MkNodes(2, l2))>>
    /\ call_out = <<Done(MkNodes(1, l1)), Done(MkNodes(2, l2))>>
    /\ reordered = FALSE
    /\ results = <<>>
    /\ normalized = <<>>
    /\ fused = <<>>
    /\ output = <<>>
    /\ outcome = "none"
    /\ error = NoError

FusionInit ==
    \E m \in {"reciprocal_rerank", "relative_score", "dist_based_score", "simple"} :
    \E l1 \in ListsUpTo(MaxNodes, Contents, FusionScores) :
    \E l2 \in ListsUpTo(MaxNodes - Len(l1), Contents, FusionScores) :
        Gathered(m, l1, l2)

SpecFusion == FusionInit /\ [][AsyncFinish]_vars

\* one longer list next to a list of another retriever with a score range of its own
NormInit ==
    \E m \in {"relative_score", "dist_based_score"} :
    \E l1 \in ListsUpTo(MaxNormLen, {"a"}, NormScores) :
    \E l2 \in {<<>>, <<[content |-> "b", score |-> RInt(3)], [content |-> "c", score |-> RInt(2)]>>} :
        Gathered(m, l1, l2)

SpecNorm == NormInit /\ [][AsyncFinish]_vars

-----------------------------------------------------------------------------
(* Distance-based normalization of one longer result list: n nodes, the first  *)
(* k with the score 1.0 and the others with the score 0.0                      *)

DistList(n, k) ==
    [i \in 1..n |-> [content |-> "a", score |-> IF i <= k THEN One ELSE Zero]]

DistInit ==
    \E n \in 1..MaxDistLen : \E k \in 0..n :
        Gathered("dist_based_score", DistList(n, k), <<>>)

SpecDist == DistInit /\ [][AsyncFinish]_vars

-----------------------------------------------------------------------------
(* Reciprocal rank fusion of two ranked lists of n nodes that hold the same    *)
(* contents at the same ranks, except at rank q, where each list holds a       *)
(* content of its own: for short lists at every rank q, and for lists of k     *)
(* nodes at the first and the last rank                                        *)

RankLens == (2..MaxRankLen) \cup {RRF_K}

RanksOf(n) == IF n <= MaxRankLen THEN 0..(n - 1) ELSE {0, n - 1}

\* the list of retriever `own`, scores descending with the rank
RankList(n, q, own) ==
    [i \in 1..n |-> [content |-> IF i = q + 1 THEN own ELSE ToString(i),
                     score |-> Rat(n + 1 - i, n + 1)]]

RankInit ==
    \/ \E n \in RankLens : \E q \in RanksOf(n) :
           Gathered("reciprocal_rerank", RankList(n, q, "a"), RankList(n, q, "z"))
    \/ Gathered("reciprocal_rerank",
                << [content |-> "a", score |-> Rat(9, 10)], [content |-> "b", score |-> Rat(1, 2)] >>,
                << [content |-> "b", score |-> Rat(3, 5)], [content |-> "c", score |-> Rat(3, 10)] >>)

SpecRank == RankInit /\ [][AsyncFinish]_vars

-----------------------------------------------------------------------------
(* Construction with every short retriever_weights argument *)

WeightValues == {RInt(-1), Zero, Rat(1, 2), One, RInt(3)}

\* None (written <<>>) or a non-empty list of weights
AllWeightArgs == UNION {[1..k -> WeightValues] : k \in 0..MaxWeights}

ConstructInit ==
    /\ mode = "relative_score"
    /\ num_queries = 1
    /\ similarity_top_k = MaxTopK
    /\ entry = "aretrieve"
    /\ weights_arg \in AllWeightArgs
    /\ retriever_weights = <<>>
    /\ llm_calls = <<>>
    /\ NoRecursion
    /\ EngineIdle
    /\ pc = "new"
    /\ queries = <<>>
    /\ task_queries = <<>>
    /\ task_results = <<>>
    /\ call_out = <<>>
    /\ reordered = FALSE
    /\ results = <<>>
    /\ normalized = <<>>
    /\ fused = <<>>
    /\ output = <<>>
    /\ outcome = "none"
    /\ error = NoError

\* MyQueryFusionRetriever(retrievers, retriever_weights=weights_arg)
Construct ==
    /\ pc = "new"
    /\ IF InitRaises(weights_arg)
       THEN /\ Raise(ZeroDivisionError)
            /\ UNCHANGED retriever_weights
       ELSE /\ retriever_weights' = InitWeights(weights_arg)
            /\ pc' = "start"
            /\ UNCHANGED <<results, normalized, fused, output, outcome, error>>
    /\ UNCHANGED <<mode, num_queries, similarity_top_k, entry, weights_arg, llm_calls,
                   queries, task_queries, task_results, call_out, reordered, recursion,
                   engine>>

SpecConstruct == ConstructInit /\ [][Construct]_vars

-----------------------------------------------------------------------------
(* The query expansion on every short response text of the LLM *)

Chars == {"p", "r", " ", "\n"}

Texts == UNION {[1..k -> Chars] : k \in 0..MaxTextLen}

ExpandInit ==
    /\ mode = "no_fusion"
    /\ num_queries \in 0..(MaxNumQueries + 1)
    /\ similarity_top_k = MaxTopK
    /\ entry \in Entries
    /\ weights_arg = <<>>
    /\ retriever_weights = InitWeights(weights_arg)
    /\ llm_calls = <<>>
    /\ NoRecursion
    /\ EngineIdle
    /\ pc = "start"
    /\ queries = <<>>
    /\ task_queries = <<>>
    /\ task_results = <<>>
    /\ call_out = <<>>
    /\ reordered = FALSE
    /\ results = <<>>
    /\ normalized = <<>>
    /\ fused = <<>>
    /\ output = <<>>
    /\ outcome = "none"
    /\ error = NoError

ExpandAny == \E text \in Texts : StartExpandedWith(text)

NextExpand ==
    \/ StartSingle
    \/ ExpandAny
    \/ ExpandFails

SpecExpand == ExpandInit /\ [][NextExpand]_vars

-----------------------------------------------------------------------------
(* The recursive expansion of a result list, _ahandle_recursive_retrieval *)

\* the fields of the retrieval invocation, idle during the expansion
retrieval == <<Config, llm_calls, queries, task_queries, task_results, call_out,
               reordered, results, normalized, fused>>

\* a node is a plain node, or an IndexNode: with node.obj set, with node.obj unset
\* and its index_id in self.object_map, or with neither
NodeKinds == {"text", "index_obj", "index_mapped", "index_unresolved"}

RecScores == {None, Zero, Rat(1, 2)}

RecInputs == UNION {[1..k -> [kind : NodeKinds, score : RecScores]] : k \in 0..MaxRecNodes}

\* the score lists that a nested retrieval may return
NestedResults == {<<>>, <<Rat(1, 2)>>, <<One, None>>}

\* the NodeWithScore objects of the argument, and of the nested retrieval at pos
MkRecNodes(pos, lst) ==
    [i \in DOMAIN lst |->
        [id |-> <<pos, i>>, content |-> "n", score |-> lst[i].score, kind |-> lst[i].kind]]

MkNested(pos, scores) ==
    MkRecNodes(pos, [i \in DOMAIN scores |-> [kind |-> "text", score |-> scores[i]]])

\* score = n.score or 1.0
ScoreOrOne(score) == IF IsNone(score) \/ score = Zero THEN One ELSE score

\* isinstance(node, IndexNode), and obj = node.obj or self.object_map.get(...) is
\* not None
HasObject(n) == n.kind \in {"index_obj", "index_mapped"}

RecInit ==
    /\ mode = "no_fusion"
    /\ num_queries = 1
    /\ similarity_top_k = MaxTopK
    /\ entry = "aretrieve"
    /\ weights_arg = <<>>
    /\ retriever_weights = InitWeights(weights_arg)
    /\ llm_calls = <<>>
    /\ \E lst \in RecInputs : rec_nodes = MkRecNodes(0, lst)
    /\ rec_i = 0
    /\ retrieved_nodes = <<>>
    /\ nested_calls = <<>>
    /\ EngineIdle
    /\ pc = "recursing"
    /\ queries = <<>>
    /\ task_queries = <<>>
    /\ task_results = <<>>
    /\ call_out = <<>>
    /\ reordered = FALSE
    /\ results = <<>>
    /\ normalized = <<>>
    /\ fused = <<>>
    /\ output = <<>>
    /\ outcome = "none"
    /\ error = NoError

\* retrieved_nodes.append(n)
RecKeep ==
    /\ pc = "recursing"
    /\ rec_i < Len(rec_nodes)
    /\ ~HasObject(rec_nodes[rec_i + 1])
    /\ retrieved_nodes' = Append(retrieved_nodes, rec_nodes[rec_i + 1])
    /\ rec_i' = rec_i + 1
    /\ UNCHANGED <<engine, retrieval, rec_nodes, nested_calls, pc, output, outcome, error>>

\* retrieved_nodes.extend(await self._aretrieve_from_object(obj, query_bundle, score))
RecNested ==
    /\ pc = "recursing"
    /\ rec_i < Len(rec_nodes)
    /\ HasObject(rec_nodes[rec_i + 1])
    /\ \E scores \in NestedResults :
          /\ nested_calls' = Append(nested_calls,
                                    [pos |-> rec_i + 1,
                                     score |-> ScoreOrOne(rec_nodes[rec_i + 1].score),
                                     nodes |-> MkNested(rec_i + 1, scores)])
          /\ retrieved_nodes' = retrieved_nodes \o MkNested(rec_i + 1, scores)
    /\ rec_i' = rec_i + 1
    /\ UNCHANGED <<engine, retrieval, rec_nodes, pc, output, outcome, error>>

\* the nested retrieval raises
RecNestedFails ==
    /\ pc = "recursing"
    /\ rec_i < Len(rec_nodes)
    /\ HasObject(rec_nodes[rec_i + 1])
    /\ nested_calls' = Append(nested_calls,
                              [pos |-> rec_i + 1,
                               score |-> ScoreOrOne(rec_nodes[rec_i + 1].score),
                               nodes |-> <<>>])
    /\ outcome' = "raised"
    /\ error' = <<"RetrievalError", "">>
    /\ pc' = "done"
    /\ UNCHANGED <<engine, retrieval, rec_nodes, rec_i, retrieved_nodes, output>>

\* return retrieved_nodes
RecReturn ==
    /\ pc = "recursing"
    /\ rec_i = Len(rec_nodes)
    /\ output' = retrieved_nodes
    /\ outcome' = "returned"
    /\ pc' = "done"
    /\ UNCHANGED <<engine, retrieval, recursion, error>>

NextRecursive ==
    \/ RecKeep
    \/ RecNested
    \/ RecNestedFails
    \/ RecReturn

SpecRecursive == RecInit /\ [][NextRecursive]_vars

-----------------------------------------------------------------------------
(* The image / text partitioner _get_image_and_text_nodes.  A node of the   *)
(* engine is [kind, image_url, content, metadata_image_url, score, id]:     *)
(* kind tells an ImageNode from a text node, metadata_image_url is the list *)
(* under the metadata key "image_url" (<<>> when the key is absent or the   *)
(* list is empty), id is <<position in the retriever's list, 0>> and, for   *)
(* an image node made from a text node, <<the text node's position, the     *)
(* position of the reference in its list>>.                                 *)

IMAGE_MAX_PIECES == 5
TEXT_IMAGE_WEIGHT == Rat(1, 2)

ImageNode(url, score, id) ==
    [kind |-> "image", image_url |-> url, content |-> "", metadata_image_url |-> <<>>,
     score |-> score, id |-> id]

TextNode(content, refs, score, id) ==
    [kind |-> "text", image_url |-> "", content |-> content, metadata_image_url |-> refs,
     score |-> score, id |-> id]

IsImage(n) == n.kind = "image"
IsText(n) == n.kind = "text"

\* the first loop: the image_url of every ImageNode of the input
ImageUrlsOf(nodes) == {nodes[i].image_url : i \in {j \in DOMAIN nodes : IsImage(nodes[j])}}

\* the inner loop on one text node: an image node per entry of its "image_url" list
\* that is not the URL of an ImageNode of the input, with the text node's score
TextImageNodesOf(n, image_urls) ==
    SelectSeq([j \in DOMAIN n.metadata_image_url |->
                  ImageNode(n.metadata_image_url[j], n.score, <<n.id[1], j>>)],
              LAMBDA x : x.image_url \notin image_urls)

\* the list left in its order
SortNodesSkipped(nodes) == nodes

\* a list of fewer than two elements is left as it is, without a comparison
SortNodes(nodes) ==
    IF Len(nodes) < 2 THEN nodes
    ELSE SortedDesc([i \in DOMAIN nodes |-> [k |-> nodes[i].score, v |-> nodes[i]]])

\* the weight applied twice
WeightedTwice(nodes) ==
    [i \in DOMAIN nodes |->
        [nodes[i] EXCEPT !.score = RMul(RMul(@, TEXT_IMAGE_WEIGHT), TEXT_IMAGE_WEIGHT)]]

\* text_image_node.score *= TEXT_IMAGE_WEIGHT
Weighted(nodes) ==
    [i \in DOMAIN nodes |-> [nodes[i] EXCEPT !.score = RMul(@, TEXT_IMAGE_WEIGHT)]]

\* the locals of _get_image_and_text_nodes at its return, or the exception it raises:
\* comparing None raises TypeError in the sort of a list of two or more nodes, which
\* compares each of them, and so does multiplying None by the weight
GetImageAndTextNodes(nodes) ==
    LET image_urls == ImageUrlsOf(nodes)
        natives == SelectSeq(nodes, IsImage)
        text_nodes == SelectSeq(nodes, IsText)
        made == Concat([i \in DOMAIN text_nodes |->
                           TextImageNodesOf(text_nodes[i], image_urls)])
    IN  IF \/ Len(natives) >= 2 /\ \E i \in DOMAIN natives : IsNone(natives[i].score)
           \/ \E i \in DOMAIN made : IsNone(made[i].score)
        THEN [err |-> TypeError, nodes |-> nodes, image_nodes |-> <<>>,
              text_image_nodes |-> <<>>, text_nodes |-> <<>>]
        ELSE [err |-> NoError, nodes |-> nodes,
              image_nodes |-> Slice(SortNodes(natives) \o Weighted(SortNodes(made)),
                                    IMAGE_MAX_PIECES),
              text_image_nodes |-> Weighted(SortNodes(made)),
              text_nodes |-> text_nodes]

MaxPartNodes == 3       \* longest node list of the exhaustive partitioner inputs
MaxImages == 7          \* most ImageNodes of the ranked partitioner inputs
MaxRefTexts == 2        \* most text nodes of the ranked partitioner inputs

\* every list of k nodes: ImageNodes of two URLs and text nodes that reference no
\* image, one image, one image twice, or two images, with an unset or a set score
NodeLists(k) ==
    {l \in [1..k ->
               {ImageNode(u, s, <<i, 0>>) :
                   u \in {"u1", "u2"}, s \in {None, Rat(3, 10), Rat(4, 5)}, i \in 1..k}
                 \cup {TextNode("t", refs, s, <<i, 0>>) :
                          refs \in {<<>>, <<"u1">>, <<"u1", "u1">>, <<"u1", "u2">>},
                          s \in {None, Rat(3, 10), Rat(4, 5)}, i \in 1..k}] :
        \A i \in 1..k : l[i].id = <<i, 0>>}

UrlNames == <<"v1", "v2", "v3", "v4", "v5", "v6", "v7", "v8", "v9", "v10", "v11", "v12">>

\* k ImageNodes with the scores 0.9, 0.8, ... (in rising order when rev), then t text
\* nodes with the scores 1.0, 0.9, ... that reference one further image each
RankedNodes(k, t, rev) ==
    [i \in 1..(k + t) |->
        IF i <= k
        THEN ImageNode(UrlNames[i],
                       Rat(10 - (IF rev THEN k + 1 - i ELSE i), 10), <<i, 0>>)
        ELSE TextNode("t", <<UrlNames[i]>>, Rat(11 - (i - k), 10), <<i, 0>>)]

PartitionInit ==
    /\ mode = "no_fusion"
    /\ num_queries = 1
    /\ similarity_top_k = MaxTopK
    /\ entry = "aretrieve"
    /\ weights_arg = <<>>
    /\ retriever_weights = InitWeights(weights_arg)
    /\ llm_calls = <<>>
    /\ NoRecursion
    /\ eng_args = [multi_modal_llm |-> "none", llm |-> "none", stream |-> FALSE,
                   openai_package |-> "missing"]
    /\ eng_multi_modal_llm = "unset"
    /\ eng_llm = "unset"
    /\ eng_stream = FALSE
    /\ need_image = FALSE
    /\ synth_entry = "none"
    /\ client_calls = <<>>
    /\ response = "none"
    /\ node_postprocessors = <<>>
    /\ eng_nodes \in UNION {NodeLists(k) : k \in 0..MaxPartNodes}
                        \cup {RankedNodes(k, t, rev) :
                                 k \in 0..MaxImages, t \in 0..MaxRefTexts, rev \in BOOLEAN}
    /\ partitions = <<>>
    /\ post_calls = <<>>
    /\ prompt = [context_str |-> <<>>, image_documents |-> <<>>]
    /\ resp_attrs = [source_nodes |-> <<>>, metadata |-> <<>>]
    /\ pc = "part_new"
    /\ queries = <<>>
    /\ task_queries = <<>>
    /\ task_results = <<>>
    /\ call_out = <<>>
    /\ reordered = FALSE
    /\ results = <<>>
    /\ normalized = <<>>
    /\ fused = <<>>
    /\ output = <<>>
    /\ outcome = "none"
    /\ error = NoError

\* a call of _get_image_and_text_nodes(nodes)
PartitionOf(nodes, pc_) ==
    /\ partitions' = Append(partitions, GetImageAndTextNodes(nodes))
    /\ IF GetImageAndTextNodes(nodes).err = NoError
       THEN /\ pc' = pc_
            /\ UNCHANGED <<outcome, error>>
       ELSE /\ pc' = "done"
            /\ outcome' = "raised"
            /\ error' = TypeError
    /\ UNCHANGED <<retrieval, recursion, output, eng_args, eng_multi_modal_llm, eng_llm,
                   eng_stream, need_image, synth_entry, client_calls, response,
                   node_postprocessors, eng_nodes, post_calls, prompt, resp_attrs>>

\* the partitioner on the retriever's list
Partition ==
    /\ pc = "part_new"
    /\ PartitionOf(eng_nodes, "part_once")

\* the partitioner on image_nodes + text_nodes of its own result, as synthesize calls
\* it on the list retrieve returned
PartitionAgain ==
    /\ pc = "part_once"
    /\ PartitionOf(partitions[1].image_nodes \o partitions[1].text_nodes, "done")

SpecPartition == PartitionInit /\ [][Partition \/ PartitionAgain]_vars

-----------------------------------------------------------------------------
(* The query engine MySimpleMultiModalQueryEngine: construction and synthesis *)

EngineArgs ==
    [multi_modal_llm : {"none", "given"},   \* None, as MultiModalLlmModule returns
                                            \* when no multi-modal LLM is configured
     llm : {"none", "given"},
     stream : BOOLEAN,
     openai_package : {"missing", "installed"}]

EngineInit ==
    /\ mode = "no_fusion"
    /\ num_queries = 1
    /\ similarity_top_k = MaxTopK
    /\ entry = "aretrieve"
    /\ weights_arg = <<>>
    /\ retriever_weights = InitWeights(weights_arg)
    /\ llm_calls = <<>>
    /\ NoRecursion
    /\ eng_args \in EngineArgs
    /\ eng_multi_modal_llm = "unset"
    /\ eng_llm = "unset"
    /\ eng_stream = FALSE
    /\ need_image \in BOOLEAN
    /\ synth_entry = "none"
    /\ client_calls = <<>>
    /\ response = "none"
    /\ node_postprocessors = <<>>
    /\ eng_nodes \in {<<>>,
                      <<ImageNode("u1", Rat(3, 10), <<1, 0>>),
                        TextNode("a", <<"u1", "u2">>, Rat(4, 5), <<2, 0>>)>>}
    /\ partitions = <<>>
    /\ post_calls = <<>>
    /\ prompt = [context_str |-> <<>>, image_documents |-> <<>>]
    /\ resp_attrs = [source_nodes |-> <<>>, metadata |-> <<>>]
    /\ pc = "eng_new"
    /\ queries = <<>>
    /\ task_queries = <<>>
    /\ task_results = <<>>
    /\ call_out = <<>>
    /\ reordered = FALSE
    /\ results = <<>>
    /\ normalized = <<>>
    /\ fused = <<>>
    /\ output = <<>>
    /\ outcome = "none"
    /\ error = NoError

\* __init__: without a multi_modal_llm argument the OpenAI client is imported and
\* built, and a failing import is raised again
EngineConstruct ==
    /\ pc = "eng_new"
    /\ IF eng_args.multi_modal_llm = "none" /\ eng_args.openai_package = "missing"
       THEN /\ outcome' = "raised"
            /\ error' = <<"ImportError", "llama-index-multi-modal-llms-openai">>
            /\ pc' = "done"
            /\ UNCHANGED <<eng_multi_modal_llm, eng_llm, eng_stream>>
       ELSE /\ eng_multi_modal_llm' = IF eng_args.multi_modal_llm = "given"
                                      THEN "given" ELSE "openai_default"
            /\ eng_llm' = eng_args.llm
            /\ eng_stream' = TRUE
            /\ pc' = "eng_ready"
            /\ UNCHANGED <<outcome, error>>
    /\ UNCHANGED <<retrieval, recursion, output, eng_args, need_image, synth_entry,
                   client_calls, response, node_postprocessors, eng_nodes, partitions,
                   post_calls, prompt, resp_attrs>>

\* the if / else tree of synthesize and asynthesize: the client the branch uses, the
\* attribute path it calls on the client, and the response object it builds
SynthBranch(entry_, stream, needs_image) ==
    [client |-> IF needs_image THEN "multi_modal_llm" ELSE "llm",
     method |-> IF entry_ = "synthesize"
                THEN IF stream
                     THEN IF needs_image THEN "stream_complete" ELSE "acomplete.stream_complete"
                     ELSE "complete"
                ELSE IF stream THEN "astream_complete" ELSE "acomplete",
     response |-> IF stream THEN "AsyncStreamingResponse" ELSE "Response"]

\* "\n\n".join(strs), a string being the list of its pieces
RECURSIVE Join(_)
Join(strs) ==
    IF strs = <<>> THEN <<>>
    ELSE IF Len(strs) = 1 THEN <<strs[1]>>
    ELSE <<strs[1], "\n\n">> \o Join(Tail(strs))

\* the label of the image link list in the context (the literal of lines 194 and 199)
IMAGE_LIST_LABEL == "image link list: "

\* "\n\n".join of the content of the text nodes
TextContext(text_nodes) == Join([i \in DOMAIN text_nodes |-> text_nodes[i].content])

\* what the f-string appends to context_str: the label and the joined image URLs
ImageSection(image_nodes) ==
    <<"\n\n", IMAGE_LIST_LABEL, "\n\n">>
        \o Join([i \in DOMAIN image_nodes |-> image_nodes[i].image_url]) \o <<"\n\n">>

\* context_str when the prompt is formatted: synthesize appends the image section
\* before the branches, and the needs_image branch of either entry appends it
ContextStr(entry_, needs_image, p) ==
    TextContext(p.text_nodes)
        \o (IF entry_ = "synthesize" THEN ImageSection(p.image_nodes) ELSE <<>>)
        \o (IF needs_image THEN ImageSection(p.image_nodes) ELSE <<>>)

\* [image_node.node for image_node in image_nodes]
ImageDocuments(image_nodes) ==
    [i \in DOMAIN image_nodes |->
        [image_url |-> image_nodes[i].image_url, id |-> image_nodes[i].id]]

\* Response(response, source_nodes, metadata) and
\* AsyncStreamingResponse(response_gen, source_nodes)
ResponseAttrs(kind, nodes, p) ==
    [source_nodes |-> nodes,
     metadata |-> IF kind = "Response"
                  THEN <<[key |-> "text_nodes", val |-> p.text_nodes],
                         [key |-> "image_nodes", val |-> p.image_nodes]>>
                  ELSE <<>>]

\* synthesize / asynthesize on the list of the retriever or on the list retrieve /
\* aretrieve returned.  The partitioner runs first and the prompt is formatted
\* before the client is looked up.  Looking up an attribute of None, or the attribute
\* stream_complete of the bound method acomplete, raises AttributeError before
\* any client is called; a client call returns or raises.
Synthesize(entry_) ==
    /\ pc \in {"eng_ready", "eng_retrieve_done", "eng_aretrieve_done"}
    /\ synth_entry' = entry_
    /\ pc' = "done"
    /\ LET b == SynthBranch(entry_, eng_stream, need_image)
           nodes == IF pc = "eng_ready" THEN eng_nodes ELSE output
           p == GetImageAndTextNodes(nodes)
       IN  /\ partitions' = Append(partitions, p)
           /\ IF p.err # NoError
              THEN /\ outcome' = "raised"
                   /\ error' = p.err
                   /\ UNCHANGED <<client_calls, response, prompt, resp_attrs>>
              ELSE /\ prompt' = [context_str |-> ContextStr(entry_, need_image, p),
                                 image_documents |-> IF need_image
                                                     THEN ImageDocuments(p.image_nodes)
                                                     ELSE <<>>]
                   /\ IF b.client = "llm" /\ eng_llm = "none"
                      THEN /\ outcome' = "raised"
                           /\ error' = <<"AttributeError", "NoneType">>
                           /\ UNCHANGED <<client_calls, response, resp_attrs>>
                      ELSE IF b.method = "acomplete.stream_complete"
                      THEN /\ outcome' = "raised"
                           /\ error' = <<"AttributeError", "stream_complete">>
                           /\ UNCHANGED <<client_calls, response, resp_attrs>>
                      ELSE /\ client_calls' = Append(client_calls,
                                                     [client |-> b.client, method |-> b.method])
                           /\ \/ /\ response' = b.response
                                 /\ resp_attrs' = ResponseAttrs(b.response, nodes, p)
                                 /\ outcome' = "returned"
                                 /\ UNCHANGED error
                              \/ /\ outcome' = "raised"
                                 /\ error' = <<"InferenceError", "">>
                                 /\ UNCHANGED <<response, resp_attrs>>
    /\ UNCHANGED <<retrieval, recursion, output, eng_args, eng_multi_modal_llm, eng_llm,
                   eng_stream, need_image, node_postprocessors, eng_nodes, post_calls>>

NextEngine ==
    \/ EngineConstruct
    \/ \E entry_ \in {"synthesize", "asynthesize"} : Synthesize(entry_)

SpecEngine == EngineInit /\ [][NextEngine]_vars

-----------------------------------------------------------------------------
(* retrieve / aretrieve of the query engine, followed by the synthesis, on an *)
(* engine constructed with both clients                                       *)

\* postprocess_nodes of a re-ranker that reverses the list and of a filter that
\* keeps the first node
PostprocessNodes(postprocessor, nodes) ==
    IF postprocessor = "reverse" THEN [i \in DOMAIN nodes |-> nodes[Len(nodes) + 1 - i]]
    ELSE IF postprocessor = "first" THEN Slice(nodes, 1)
    ELSE nodes

\* the loop over self._node_postprocessors: the calls it makes
RECURSIVE PostCalls(_, _)
PostCalls(postprocessors, nodes) ==
    IF postprocessors = <<>> THEN <<>>
    ELSE <<[postprocessor |-> postprocessors[1], nodes |-> nodes]>>
             \o PostCalls(Tail(postprocessors), PostprocessNodes(postprocessors[1], nodes))

\* _apply_node_postprocessors(nodes): text_nodes ends as what the last postprocessor
\* returns
ApplyNodePostprocessors(nodes) ==
    LET p == GetImageAndTextNodes(nodes)
        calls == PostCalls(node_postprocessors, p.text_nodes)
    IN  IF p.err # NoError
        THEN [err |-> p.err, partitions |-> <<p>>, post_calls |-> <<>>, nodes |-> <<>>]
        ELSE [err |-> NoError, partitions |-> <<p>>, post_calls |-> calls,
              nodes |-> p.image_nodes
                          \o (IF calls = <<>> THEN p.text_nodes
                              ELSE PostprocessNodes(calls[Len(calls)].postprocessor,
                                                    calls[Len(calls)].nodes))]

\* retrieve(query_bundle) / aretrieve(query_bundle) on the list the retriever returns
RetrieveOf(entry_, nodes) ==
    IF entry_ = "aretrieve" /\ ~need_image
    THEN [err |-> NoError, partitions |-> <<>>, post_calls |-> <<>>, nodes |-> nodes]
    ELSE ApplyNodePostprocessors(nodes)

MaxQueryNodes == 2      \* longest node list the retriever returns to the engine

\* every list of k nodes the retriever returns: ImageNodes of two URLs and text nodes
\* of different content that reference no image, one image or two images
QueryInputs(k) ==
    {l \in [1..k ->
               {ImageNode(u, s, <<i, 0>>) :
                   u \in {"u1", "u2"}, s \in {Rat(3, 10), Rat(4, 5)}, i \in 1..k}
                 \cup {TextNode(<<"a", "b", "c", "d">>[i], refs, s, <<i, 0>>) :
                          refs \in {<<>>, <<"u1">>, <<"u1", "u2">>},
                          s \in {None, Rat(4, 5)}, i \in 1..k}] :
        \A i \in 1..k : l[i].id = <<i, 0>>}

QueryInit ==
    /\ mode = "no_fusion"
    /\ num_queries = 1
    /\ similarity_top_k = MaxTopK
    /\ entry = "aretrieve"
    /\ weights_arg = <<>>
    /\ retriever_weights = InitWeights(weights_arg)
    /\ llm_calls = <<>>
    /\ NoRecursion
    /\ eng_args \in {a \in EngineArgs : a.multi_modal_llm = "given" /\ a.llm = "given"
                                        /\ a.openai_package = "installed"}
    /\ eng_multi_modal_llm = "given"
    /\ eng_llm = "given"
    /\ eng_stream = TRUE
    /\ need_image \in BOOLEAN
    /\ synth_entry = "none"
    /\ client_calls = <<>>
    /\ response = "none"
    /\ node_postprocessors \in {<<>>, <<"reverse">>, <<"reverse", "first">>}
    /\ eng_nodes \in UNION {QueryInputs(k) : k \in 0..MaxQueryNodes}
    /\ partitions = <<>>
    /\ post_calls = <<>>
    /\ prompt = [context_str |-> <<>>, image_documents |-> <<>>]
    /\ resp_attrs = [source_nodes |-> <<>>, metadata |-> <<>>]
    /\ pc = "eng_ready"
    /\ queries = <<>>
    /\ task_queries = <<>>
    /\ task_results = <<>>
    /\ call_out = <<>>
    /\ reordered = FALSE
    /\ results = <<>>
    /\ normalized = <<>>
    /\ fused = <<>>
    /\ output = <<>>
    /\ outcome = "none"
    /\ error = NoError

\* retrieve / aretrieve
Retrieve(entry_) ==
    /\ pc = "eng_ready"
    /\ partitions' = partitions \o RetrieveOf(entry_, eng_nodes).partitions
    /\ post_calls' = post_calls \o RetrieveOf(entry_, eng_nodes).post_calls
    /\ IF RetrieveOf(entry_, eng_nodes).err = NoError
       THEN /\ output' = RetrieveOf(entry_, eng_nodes).nodes
            /\ pc' = IF entry_ = "retrieve" THEN "eng_retrieve_done" ELSE "eng_aretrieve_done"
            /\ UNCHANGED <<outcome, error>>
       ELSE /\ outcome' = "raised"
            /\ error' = RetrieveOf(entry_, eng_nodes).err
            /\ pc' = "done"
            /\ UNCHANGED output
    /\ UNCHANGED <<retrieval, recursion, eng_args, eng_multi_modal_llm, eng_llm, eng_stream,
                   need_image, synth_entry, client_calls, response, node_postprocessors,
                   eng_nodes, prompt, resp_attrs>>

NextQuery ==
    \/ \E entry_ \in {"retrieve", "aretrieve"} : Retrieve(entry_)
    \/ \E entry_ \in {"synthesize", "asynthesize"} : Synthesize(entry_)

SpecQuery == QueryInit /\ [][NextQuery]_vars

-----------------------------------------------------------------------------
(* Properties *)

ReturnedIn(m) == pc = "done" /\ outcome = "returned" /\ mode = m

\* the positions [e, i] of all nodes of a mapping, list by list
Positions(res) ==
    Concat([e \in DOMAIN res |-> [i \in DOMAIN res[e].val |-> [e |-> e, i |-> i]]])

ContentsOf(nodes) == {nodes[i].content : i \in DOMAIN nodes}

\* each content of the source lists is the content of exactly one node of `nodes`
OnePerContent(nodes, res) ==
    /\ ContentsOf(nodes) = ContentsOf(AllNodes(res))
    /\ \A j, k \in DOMAIN nodes : nodes[j].content = nodes[k].content => j = k

SortedByScoreDesc(nodes) ==
    \A j, k \in DOMAIN nodes :
        j < k => RLeq(ScoreOrZero(nodes[k].score), ScoreOrZero(nodes[j].score))

\* the score-sorted list e of the mapping (an unset score sorts as 0.0)
Ranked(e) == SortByScore(results[e].val)

\* sum of 1 / (rank + 60) over every position of content c in every ranked list
RRFSumPerOccurrence(c) ==
    LET Has(p) == Ranked(p.e)[p.i].content = c
        occ == SelectSeq(Positions(results), Has)
    IN  RSum([n \in DOMAIN occ |-> Rat(1, (occ[n].i - 1) + 60)])

\* sum of 1 / (rank + 60) with one term per list that holds content c, rank being
\* the position of c in that ranked list
RRFSumPerList(c) ==
    LET Holds(e) == c \in ContentsOf(results[e].val)
        lists == SelectSeq([e \in DOMAIN results |-> e], Holds)
        Rank(e) == CHOOSE r \in 0..(Len(Ranked(e)) - 1) :
                      /\ Ranked(e)[r + 1].content = c
                      /\ \A q \in 0..(r - 1) : Ranked(e)[q + 1].content # c
    IN  RSum([n \in DOMAIN lists |-> Rat(1, Rank(lists[n]) + 60)])

\* C1 as stated: in reciprocal_rank mode every returned node's score is the sum,
\* with one term per source list in which its content appears, of 1 / (rank + 60),
\* and equal contents of different lists are merged into one node.
C1_RRFOneTermPerList ==
    ReturnedIn("reciprocal_rerank") =>
        /\ OnePerContent(fused, results)
        /\ \A j \in DOMAIN fused : fused[j].score = RRFSumPerList(fused[j].content)

\* C1 amended: in reciprocal_rank mode every returned node's score is the sum, with
\* one term per occurrence of its content in a source list (a content that occurs
\* twice in one list contributes two terms), of 1 / (rank + 60), rank being the
\* 0-based position of the occurrence in the list sorted by score descending;
\* equal contents are merged into one node.
C1_RRFOneTermPerOccurrence ==
    ReturnedIn("reciprocal_rerank") =>
        /\ OnePerContent(fused, results)
        /\ \A j \in DOMAIN fused : fused[j].score = RRFSumPerOccurrence(fused[j].content)

\* a content ranked first in both lists and second in one of them
C1_Witness ==
    /\ ReturnedIn("reciprocal_rerank")
    /\ Len(results) = 2
    /\ \E j \in DOMAIN fused :
          fused[j].score = RAdd(Rat(1, 60), RAdd(Rat(1, 61), Rat(1, 60)))

\* C5: in relative_score mode every node's score right after scaling, in every
\* non-empty result list taken on its own, is (score - min) / (max - min) of that
\* list's scores and lies in [0, 1]; when max = min it is 1 if max > 0 and 0 otherwise.
C5_MinMaxNormalized ==
    ReturnedIn("relative_score") =>
        \A e \in DOMAIN results : \A i \in DOMAIN results[e].val :
            LET ss == Range(ScoresOf(results[e].val))
                mn == CHOOSE x \in ss : \A y \in ss : RLeq(x, y)
                mx == CHOOSE x \in ss : \A y \in ss : RLeq(y, x)
                v == normalized[e][i]
            IN  /\ RLeq(Zero, v) /\ RLeq(v, One)
                /\ mx # mn => v = RDiv(RSub(results[e].val[i].score, mn), RSub(mx, mn))
                /\ mx = mn => v = IF RLt(Zero, mx) THEN One ELSE Zero

\* scores [0.2, 0.8, 0.5] scale to [0.0, 1.0, 0.5] next to another retriever's list
C5_Witness ==
    /\ ReturnedIn("relative_score")
    /\ ScoresOf(results[1].val) = <<Rat(1, 5), Rat(4, 5), Rat(1, 2)>>
    /\ results[2].val # <<>>
    /\ normalized[1] = <<Zero, One, Rat(1, 2)>>

\* C6: in simple mode each distinct content of the result lists is the content of
\* exactly one output node, whose score is the maximum of the scores of all
\* occurrences of that content, and the output is sorted by score descending.
C6_SimpleKeepsMax ==
    ReturnedIn("simple") =>
        /\ OnePerContent(fused, results)
        /\ SortedByScoreDesc(fused)
        /\ \A j \in DOMAIN fused :
              LET occ == {n \in Range(AllNodes(results)) : n.content = fused[j].content}
              IN  /\ \E n \in occ : n.score = fused[j].score
                  /\ \A n \in occ : RLeq(ScoreOrZero(n.score), ScoreOrZero(fused[j].score))

\* two retrievers return the same content with scores 0.3 and 0.9: one node, 0.9
C6_Witness ==
    /\ ReturnedIn("simple")
    /\ Len(results) = 2
    /\ ScoresOf(results[1].val) = <<Rat(3, 10)>>
    /\ ScoresOf(results[2].val) = <<Rat(9, 10)>>
    /\ Len(fused) = 1
    /\ fused[1].score = Rat(9, 10)

\* the mapping that the dispatch order and each call's own list determine: the keys
\* in the order of their first task, each with the list of its last task
DispatchOrderResults ==
    LET first == {t \in DOMAIN task_queries :
                    \A u \in 1..(t - 1) : task_queries[u] # task_queries[t]}
        Nth(n) == CHOOSE t \in first : Cardinality({u \in first : u < t}) = n - 1
        Last(k) == CHOOSE t \in DOMAIN task_queries :
                      /\ task_queries[t] = k
                      /\ \A u \in DOMAIN task_queries : task_queries[u] = k => u <= t
    IN  [n \in 1..Cardinality(first) |->
            [key |-> task_queries[Nth(n)], val |-> call_out[Last(task_queries[Nth(n)])].nodes]]

\* C2: the nodes, their order and their scores returned by retrieve / aretrieve are
\* determined by the mode, the queries and each call's result list alone: they are
\* the same under every completion order of the concurrent retrieval calls.
C2_CompletionOrderIrrelevant ==
    (pc = "done" /\ outcome = "returned") =>
        /\ results = DispatchOrderResults
        /\ output = Truncate(mode, FusionOf(mode, DispatchOrderResults).nodes)

\* four concurrent calls completed out of dispatch order with differing lists
C2_Witness ==
    /\ ReturnedIn("reciprocal_rerank")
    /\ entry = "aretrieve"
    /\ reordered
    /\ Len(call_out) = 4
    /\ call_out[1].nodes[1].content # call_out[2].nodes[1].content
    /\ output # <<>>

UpstreamFailed == error[1] \in {"LLMError", "RetrievalError"}

\* C3: a failing retrieval call fails the whole invocation with that error, and no
\* invocation returns a list fused from fewer result lists than the (query,
\* retriever) pairs it dispatched.
C3_NoPartialFusion ==
    pc = "done" =>
        /\ (\E t \in DOMAIN call_out : call_out[t] = Failed) =>
              (outcome = "raised" /\ error = <<"RetrievalError", "">> /\ output = <<>>)
        /\ outcome = "returned" => Len(results) = Len(task_queries)

\* C4: in relative_score mode the fused score of each returned content is the sum,
\* over all occurrences of the content in all result lists, of normalized score x
\* weight[retriever index] / Q, Q being the number of queries used in the fan-out.
C4_DividesByQueriesUsed ==
    ReturnedIn("relative_score") =>
        \A j \in DOMAIN fused :
            LET Has(p) == results[p.e].val[p.i].content = fused[j].content
                occ == SelectSeq(Positions(results), Has)
            IN  fused[j].score =
                  RSum([n \in DOMAIN occ |->
                          RDiv(RMul(normalized[occ[n].e][occ[n].i],
                                    retriever_weights[results[occ[n].e].key[2] + 1]),
                               RInt(Len(queries)))])

\* C7: in no_fusion mode the output is the concatenation of the result lists of all
\* retrieval calls of the invocation, scores unchanged and no node removed: its
\* length is the sum of the lengths of the lists the calls returned.
C7_NoFusionKeepsEveryCall ==
    ReturnedIn("no_fusion") =>
        /\ Len(output) = Len(Concat([t \in DOMAIN call_out |-> call_out[t].nodes]))
        /\ \A t \in DOMAIN call_out : \A i \in DOMAIN call_out[t].nodes :
              \E j \in DOMAIN output : output[j] = call_out[t].nodes[i]

\* C8: in every mode but no_fusion the returned list is the prefix of length
\* min(similarity_top_k, length of the fused list) of the fused, score-sorted list,
\* and is never longer than similarity_top_k.
C8_TruncatedToTopK ==
    (pc = "done" /\ outcome = "returned" /\ mode # "no_fusion") =>
        /\ Len(output) <= similarity_top_k
        /\ Len(output) = Min2(similarity_top_k, Len(fused))
        /\ \A j \in DOMAIN output : output[j] = fused[j]
        /\ SortedByScoreDesc(fused)

\* three fused contents cut to the two best
C8_Witness ==
    /\ ReturnedIn("simple")
    /\ Len(fused) = 3
    /\ similarity_top_k = 2
    /\ output = <<fused[1], fused[2]>>

\* C9: a call in detail_reciprocal_rank mode succeeds and returns the node order
\* and the fused scores of the same call in reciprocal_rank mode.
C9_DetailModeSameAsRRF ==
    (pc = "done" /\ mode = "detail_reciprocal_rerank" /\ ~UpstreamFailed) =>
        /\ outcome = "returned"
        /\ output = Slice(ReciprocalRerankFusion(results).nodes, similarity_top_k)

InvalidModeError == <<"ValueError: Invalid fusion mode", mode>>

\* C10 as stated: a call whose mode is no FusionMode value fails with a
\* configuration error whose message names the mode, and returns no node list.
C10_InvalidModeRaisesConfigError ==
    (pc = "done" /\ mode \notin Modes) =>
        (outcome = "raised" /\ error = InvalidModeError /\ output = <<>>)

\* C10 amended: a call whose mode is no FusionMode value returns no node list; it
\* fails, and when the query expansion and every retrieval call of the fan-out
\* have succeeded the failure is the configuration error naming the mode (the mode
\* is examined only after the fan-out, so an earlier LLM or retrieval failure is
\* the error raised instead).
C10_InvalidModeNeverReturns ==
    (pc = "done" /\ mode \notin Modes) =>
        /\ outcome = "raised"
        /\ output = <<>>
        /\ error = InvalidModeError \/ UpstreamFailed
        /\ (call_out # <<>> /\ \A t \in DOMAIN call_out : call_out[t].st = "done") =>
              error = InvalidModeError

\* every call of the fan-out returned, and the invocation raised the mode error
C10_Witness ==
    /\ pc = "done"
    /\ mode \notin Modes
    /\ Len(call_out) = 4
    /\ \A t \in DOMAIN call_out : call_out[t].st = "done"
    /\ outcome = "raised"
    /\ error = InvalidModeError

\* the lines of a text: a line starts at position 1 and after every line feed, and
\* ends before the next line feed or at the end of the text
LineStarts(text) == {b \in 1..(Len(text) + 1) : b = 1 \/ text[b - 1] = "\n"}

LineEnd(text, b) ==
    CHOOSE e \in b..(Len(text) + 1) :
        /\ e = Len(text) + 1 \/ text[e] = "\n"
        /\ \A i \in b..(e - 1) : text[i] # "\n"

\* the positions of the characters of the line at b that are no whitespace
InkOf(text, b) == {i \in b..(LineEnd(text, b) - 1) : text[i] # " "}

\* the lines that are non-empty after trimming
UsableLines(text) == {b \in LineStarts(text) : InkOf(text, b) # {}}

\* the line at b without its leading and trailing whitespace
TrimmedLine(text, b) ==
    LET ink == InkOf(text, b)
        first == CHOOSE i \in ink : \A j \in ink : i <= j
        last == CHOOSE i \in ink : \A j \in ink : j <= i
    IN  SubSeq(text, first, last)

\* the first min(n, k) of the n usable lines, trimmed, in the order of the text
FirstUsableLines(text, k) ==
    LET usable == UsableLines(text)
        Nth(n) == CHOOSE b \in usable : Cardinality({u \in usable : u < b}) = n - 1
    IN  [n \in 1..Min2(Cardinality(usable), k) |-> TrimmedLine(text, Nth(n))]

\* C11: the queries dispatched are the original query first, then the expanded
\* queries in the order the expander returned them (the tasks of the fan-out follow
\* that order); when num_queries <= 1 the LLM is never called and the original query
\* is dispatched alone.
C11_OriginalFirstThenExpansion ==
    pc = "running" =>
        /\ queries # <<>> /\ queries[1] = OriginalQuery
        /\ num_queries <= 1 => (llm_calls = <<>> /\ queries = <<OriginalQuery>>)
        /\ num_queries > 1 =>
              /\ Len(llm_calls) = 1
              /\ Tail(queries) = FirstUsableLines(llm_calls[1].text, num_queries - 1)
        /\ Len(task_queries) = Len(queries) * NumRetrievers
        /\ \A t \in DOMAIN task_queries :
              task_queries[t] = <<queries[((t - 1) \div NumRetrievers) + 1],
                                  (t - 1) % NumRetrievers>>

\* the response "r\np" with num_queries = 3 dispatches q, r, p in that order
C11_Witness ==
    /\ pc = "running"
    /\ num_queries = 3
    /\ llm_calls = <<[ok |-> TRUE, text |-> <<"r", "\n", "p">>]>>
    /\ queries = <<OriginalQuery, <<"r">>, <<"p">>>>
    /\ task_queries[3] = <<<<"r">>, 0>>

\* C12: for every response text the expander returns the first
\* min(n, num_queries - 1) of the n lines that are non-empty after trimming, each
\* trimmed, in response order: no returned string is empty or starts or ends with
\* whitespace, there are never more than num_queries - 1, and fewer usable lines
\* give fewer queries without padding or error.
C12_ExpanderTrimsAndCuts ==
    (Len(llm_calls) = 1 /\ llm_calls[1].ok) =>
        LET text == llm_calls[1].text
            returned == Tail(queries)
        IN  /\ pc = "running"
            /\ outcome = "none"
            /\ returned = FirstUsableLines(text, num_queries - 1)
            /\ Len(returned) <= num_queries - 1
            /\ Len(returned) = Min2(Cardinality(UsableLines(text)), num_queries - 1)
            /\ \A n \in DOMAIN returned :
                  /\ returned[n] # <<>>
                  /\ returned[n][1] \notin {" ", "\n"}
                  /\ returned[n][Len(returned[n])] \notin {" ", "\n"}

\* the response " r\n\np" has the usable lines "r" and "p"; with num_queries = 2
\* the expander returns "r" alone
C12_Witness ==
    /\ num_queries = 2
    /\ llm_calls = <<[ok |-> TRUE, text |-> <<" ", "r", "\n", "\n", "p">>]>>
    /\ Tail(queries) = << <<"r">> >>

\* C13: for any retriever_weights list given at construction, construction succeeds
\* and the stored weights sum to 1.0; when no list is given each of the N retrievers
\* has the weight 1 / N.
C13_WeightsSumToOne ==
    pc # "new" =>
        /\ outcome # "raised"
        /\ RSum(retriever_weights) = One
        /\ weights_arg = <<>> =>
              /\ Len(retriever_weights) = NumRetrievers
              /\ \A i \in DOMAIN retriever_weights :
                    retriever_weights[i] = Rat(1, NumRetrievers)

\* the number of result lists that hold content c
ListsHolding(c) == Cardinality({e \in DOMAIN results : c \in ContentsOf(results[e].val)})

DistinctContents(nodes) ==
    \A j, k \in DOMAIN nodes : nodes[j].content = nodes[k].content => j = k

\* C14: in reciprocal_rank mode, when every result list has at most 60 nodes with
\* pairwise distinct content, every content that appears in two or more result
\* lists is ranked before every content that appears in exactly one result list.
C14_MultiListBeforeSingle ==
    (/\ ReturnedIn("reciprocal_rerank")
     /\ \A e \in DOMAIN results :
           Len(results[e].val) <= 60 /\ DistinctContents(results[e].val)) =>
        \A j, k \in DOMAIN fused :
            (ListsHolding(fused[j].content) >= 2 /\ ListsHolding(fused[k].content) = 1)
                => j < k

\* lists [a:0.9, b:0.5] and [b:0.6, c:0.3] with top_k = 2 return b first
C14_Witness ==
    /\ ReturnedIn("reciprocal_rerank")
    /\ similarity_top_k = 2
    /\ ContentsOf(results[1].val) = {"a", "b"}
    /\ ContentsOf(results[2].val) = {"b", "c"}
    /\ Len(output) = 2
    /\ output[1].content = "b"
    /\ output[1].score = RAdd(Rat(1, 61), Rat(1, 60))

\* C15: in distance_based_score mode, where the bounds of a result list are
\* mean - 3 stddev and mean + 3 stddev of its scores, every node's score right after
\* scaling, before weighting, lies in [0, 1], for result lists of any length.
C15_DistBasedInUnitInterval ==
    ReturnedIn("dist_based_score") =>
        \A e \in DOMAIN results : \A i \in DOMAIN results[e].val :
            /\ RLeq(Zero, normalized[e][i])
            /\ RLeq(normalized[e][i], One)

\* the mapping without its empty result lists
WithoutEmptyLists(res) ==
    LET NonEmpty(entry_) == entry_.val # <<>>
    IN  SelectSeq(res, NonEmpty)

\* C16: in relative_score and distance_based_score mode a fan-out with one or more
\* empty result lists does not raise on their account, and every returned node has
\* the fused score it would have if the empty lists were absent from the mapping:
\* the invocation ends as the fusion of the mapping without them ends, and it
\* returns whenever every score is set.
C16_EmptyListsContributeNothing ==
    (/\ pc = "done"
     /\ mode \in {"relative_score", "dist_based_score"}
     /\ \E e \in DOMAIN results : results[e].val = <<>>) =>
        LET r == FusionOf(mode, WithoutEmptyLists(results))
        IN  /\ error = r.err
            /\ fused = r.nodes
            /\ outcome = IF r.err = NoError THEN "returned" ELSE "raised"
            /\ ~HasNoneScore(results) => outcome = "returned"

\* the first retriever returns nothing, the second two nodes: both are returned
C16_Witness ==
    /\ ReturnedIn("dist_based_score")
    /\ Len(results) = 2
    /\ results[1].val = <<>>
    /\ Len(results[2].val) = 2
    /\ Len(fused) = 2
    /\ fused[1].score # fused[2].score

\* the mapping with every unset score replaced by 0.0
UnsetAsZero(res) ==
    [e \in DOMAIN res |->
        [key |-> res[e].key,
         val |-> [i \in DOMAIN res[e].val |->
                    [res[e].val[i] EXCEPT !.score = ScoreOrZero(res[e].val[i].score)]]]]

\* C17: reciprocal_rank, relative_score, distance_based_score and simple fusion
\* complete without error when a result list holds a node whose score is unset, and
\* rank and combine that node exactly as if its score were 0.0.
C17_UnsetScoreAsZero ==
    (/\ pc = "done"
     /\ mode \in {"reciprocal_rerank", "relative_score", "dist_based_score", "simple"}
     /\ HasNoneScore(results)) =>
        LET r == FusionOf(mode, UnsetAsZero(results))
        IN  /\ outcome = "returned"
            /\ Len(fused) = Len(r.nodes)
            /\ \A j \in DOMAIN fused :
                  /\ fused[j].content = r.nodes[j].content
                  /\ ScoreOrZero(fused[j].score) = ScoreOrZero(r.nodes[j].score)

\* the nodes that take the place of the node at position p in the returned list
SplicedAt(p) ==
    IF rec_nodes[p].kind \in {"text", "index_unresolved"} THEN <<rec_nodes[p]>>
    ELSE LET c == CHOOSE c \in DOMAIN nested_calls : nested_calls[c].pos = p
         IN  nested_calls[c].nodes

\* C18: for every result node that references a resolvable nested object the score
\* passed to the nested retrieval is the node's own score whenever that score is
\* set (0.0 included) and 1.0 only when it is unset; every node that is no index
\* node, or whose object cannot be resolved, is kept unchanged at its position, and
\* nested results are spliced in at the position of the node they replace.
C18_RecursionPropagatesOwnScore ==
    /\ \A c \in DOMAIN nested_calls :
          LET n == rec_nodes[nested_calls[c].pos]
          IN  /\ n.kind \in {"index_obj", "index_mapped"}
              /\ nested_calls[c].score = IF IsNone(n.score) THEN One ELSE n.score
    /\ (pc = "done" /\ outcome = "returned") =>
          output = Concat([p \in DOMAIN rec_nodes |-> SplicedAt(p)])

\* C19: synthesize / asynthesize reaches exactly one of four branches: the client
\* called is the text LLM when the retriever's need-image flag is off and the
\* multi-modal LLM when it is on, and the call is the single-shot completion, with a
\* complete answer in a Response, when the engine is configured with streaming
\* false, and the incremental completion, with a lazy delta sequence, when it is
\* configured with streaming true.
C19_FourBranches ==
    (/\ pc = "done"
     /\ synth_entry # "none"
     /\ need_image \/ eng_args.llm = "given") =>
        /\ Len(client_calls) = 1
        /\ client_calls[1].client = IF need_image THEN "multi_modal_llm" ELSE "llm"
        /\ client_calls[1].method \in
              IF eng_args.stream THEN {"stream_complete", "astream_complete"}
              ELSE {"complete", "acomplete"}
        /\ outcome = "returned" =>
              response = IF eng_args.stream THEN "AsyncStreamingResponse" ELSE "Response"

\* C20: an engine constructed with a text LLM and without a multi-modal LLM is
\* constructed successfully and serves text_only synthesis; a missing inference
\* client is an error only of a synthesis call whose branch requires that client,
\* never of the construction.
C20_MissingClientFailsAtSynthesisOnly ==
    /\ (pc # "eng_new" /\ eng_args.llm = "given" /\ eng_args.multi_modal_llm = "none") =>
          /\ ~(synth_entry = "none" /\ outcome = "raised")
          /\ eng_llm = "given"
    /\ (pc = "done" /\ synth_entry # "none" /\ eng_args.llm = "given" /\ ~need_image) =>
          (outcome = "returned" \/ error = <<"InferenceError", "">>)
    /\ (outcome = "raised" /\ error # <<"InferenceError", "">>) =>
          /\ synth_entry # "none"
          /\ \/ ~need_image /\ eng_args.llm = "none"
             \/ need_image /\ eng_args.multi_modal_llm = "none"

\* the lists returned by the retrieval calls of the invocation, in task order
CallLists == [t \in DOMAIN call_out |-> call_out[t].nodes]

\* C27: after the fan-out the result mapping has one entry per issued retrieval
\* call, |queries| x |retrievers| entries, each holding the list its own call
\* returned, also when the expander returns the original query string again.
C27_OneEntryPerCall ==
    (pc = "done" /\ outcome = "returned") =>
        /\ Len(results) = Len(queries) * NumRetrievers
        /\ \A t \in DOMAIN call_out :
              \E e \in DOMAIN results :
                  results[e].key = task_queries[t] /\ results[e].val = call_out[t].nodes

FusingModes == {"reciprocal_rerank", "relative_score", "dist_based_score", "simple"}

\* C28: in the reciprocal rank, relative score, distance based and simple modes the
\* fused list before truncation holds each distinct content of the lists the
\* retrieval calls returned exactly once and nothing else, and its scores are in
\* non-increasing order.
C28_FusedOnePerContent ==
    (pc = "done" /\ outcome = "returned" /\ mode \in FusingModes) =>
        /\ ContentsOf(fused) = ContentsOf(Concat(CallLists))
        /\ \A j, k \in DOMAIN fused : fused[j].content = fused[k].content => j = k
        /\ SortedByScoreDesc(fused)

\* the first call of the partitioner has returned
Partitioned == Len(partitions) >= 1 /\ partitions[1].err = NoError

\* the image references of the text nodes of a list that are not the URL of an
\* ImageNode of the list
NewReferences(nodes) ==
    UNION {Range(nodes[i].metadata_image_url) : i \in {j \in DOMAIN nodes : IsText(nodes[j])}}
        \ ImageUrlsOf(nodes)

\* the image list of a partition before the cap
BeforeCap(p) == SelectSeq(p.nodes, IsImage) \o p.text_image_nodes

\* C24: the partitioner makes exactly one image node per distinct image reference
\* of the text nodes that is not the URL of a standalone image node, so before the
\* cap no two image nodes of the output carry the same URL.
C24_OneImagePerReference ==
    Partitioned =>
        /\ \A u \in NewReferences(partitions[1].nodes) :
              Cardinality({j \in DOMAIN partitions[1].text_image_nodes :
                              partitions[1].text_image_nodes[j].image_url = u}) = 1
        /\ \A j, k \in DOMAIN BeforeCap(partitions[1]) :
              BeforeCap(partitions[1])[j].image_url = BeforeCap(partitions[1])[k].image_url
                  => j = k

\* an image node the partitioner made from a text node
IsSynthesized(n) == n.id[2] > 0

\* C25: every synthesized image node the partitioner returns has half the score of
\* the text node it was made from, the text nodes and the native image nodes keep
\* their scores, and the text nodes are returned in input order.
C25_HalfOfTextScore ==
    Partitioned =>
        /\ \A j \in DOMAIN partitions[1].image_nodes :
              IF IsSynthesized(partitions[1].image_nodes[j])
              THEN /\ IsText(partitions[1].nodes[partitions[1].image_nodes[j].id[1]])
                   /\ partitions[1].image_nodes[j].score =
                          RMul(Rat(1, 2),
                               partitions[1].nodes[partitions[1].image_nodes[j].id[1]].score)
              ELSE partitions[1].image_nodes[j] =
                       partitions[1].nodes[partitions[1].image_nodes[j].id[1]]
        /\ partitions[1].text_nodes = SelectSeq(partitions[1].nodes, IsText)

\* a text node scoring 0.8 has yielded an image node scoring 0.4 next to a native one
C25_W ==
    /\ Partitioned
    /\ \E j, k \in DOMAIN partitions[1].image_nodes :
          /\ IsSynthesized(partitions[1].image_nodes[j])
          /\ partitions[1].image_nodes[j].score = Rat(2, 5)
          /\ partitions[1].nodes[partitions[1].image_nodes[j].id[1]].score = Rat(4, 5)
          /\ ~IsSynthesized(partitions[1].image_nodes[k])

\* a goes before b in native-first, score-descending order, or ties with it
RankedBefore(a, b) ==
    /\ IsSynthesized(a) => IsSynthesized(b)
    /\ IsSynthesized(a) = IsSynthesized(b) => RLeq(b.score, a.score)

\* C26: the image list the partitioner returns is the first min(5, n) elements of
\* the native image nodes in score-descending order followed by the synthesized
\* ones in score-descending order: at most 5 nodes, no synthesized node before a
\* native one, and of 7 native nodes scored 0.9 .. 0.3 the 5 highest-scored.
C26_NativeFirstTopFive ==
    Partitioned =>
        /\ Len(partitions[1].image_nodes) = Min2(5, Len(BeforeCap(partitions[1])))
        /\ Range(partitions[1].image_nodes) \subseteq Range(BeforeCap(partitions[1]))
        /\ \A j, k \in DOMAIN partitions[1].image_nodes :
              j < k => RankedBefore(partitions[1].image_nodes[j], partitions[1].image_nodes[k])
        /\ \A a \in Range(partitions[1].image_nodes) :
              \A b \in Range(BeforeCap(partitions[1])) \ Range(partitions[1].image_nodes) :
                  RankedBefore(a, b)
        /\ (\E rev \in BOOLEAN : partitions[1].nodes = RankedNodes(7, 0, rev)) =>
              ScoresOf(partitions[1].image_nodes) =
                  <<Rat(9, 10), Rat(8, 10), Rat(7, 10), Rat(6, 10), Rat(5, 10)>>

\* seven native nodes given in rising score order were cut to the five highest
C26_W ==
    /\ Partitioned
    /\ partitions[1].nodes = RankedNodes(7, 0, TRUE)
    /\ Len(partitions[1].image_nodes) = 5

\* a synthesized node follows a native node of a lower score
SynthesizedAfterLowerNative ==
    /\ Partitioned
    /\ \E j, k \in DOMAIN partitions[1].image_nodes :
          /\ j < k
          /\ ~IsSynthesized(partitions[1].image_nodes[j])
          /\ IsSynthesized(partitions[1].image_nodes[k])
          /\ ~IsNone(partitions[1].image_nodes[j].score)
          /\ RLt(partitions[1].image_nodes[j].score, partitions[1].image_nodes[k].score)

\* the URL and the score of each node of a list
UrlsAndScores(nodes) == [i \in DOMAIN nodes |-> <<nodes[i].image_url, nodes[i].score>>]

\* C29: partitioning image_nodes + text_nodes of a first partition returns the same
\* image_nodes, in the same order and with the same scores, and the same text_nodes.
C29_PartitionIdempotent ==
    (Len(partitions) = 2 /\ partitions[1].err = NoError) =>
        /\ partitions[2].err = NoError
        /\ UrlsAndScores(partitions[2].image_nodes) = UrlsAndScores(partitions[1].image_nodes)
        /\ partitions[2].text_nodes = partitions[1].text_nodes

\* whenever the second partition returns, its image nodes are in the order of the first
SecondPartitionSameOrder ==
    (Len(partitions) = 2 /\ partitions[1].err = NoError /\ partitions[2].err = NoError) =>
        UrlsAndScores(partitions[2].image_nodes) = UrlsAndScores(partitions[1].image_nodes)

\* the partition the synthesis call made
LastPartition == partitions[Len(partitions)]

\* the synthesis call has made its inference call
Prompted == pc = "done" /\ synth_entry # "none" /\ Len(client_calls) = 1

\* how many times the label of the image list occurs in a context
LabelCount(context_str) ==
    Cardinality({i \in DOMAIN context_str : context_str[i] = IMAGE_LIST_LABEL})

\* C21: in synthesize and asynthesize the prompt context of a text_only branch is
\* the concatenated text-node content only, without an image section, the context
\* of a needs_image branch holds the labeled image section exactly once, listing
\* the URLs of the partitioner's image_nodes, and the image documents passed to the
\* multi-modal LLM are those image_nodes.
C21_ContextByBranch ==
    Prompted =>
        /\ LabelCount(prompt.context_str) = IF need_image THEN 1 ELSE 0
        /\ prompt.context_str =
              IF need_image
              THEN TextContext(LastPartition.text_nodes)
                       \o ImageSection(LastPartition.image_nodes)
              ELSE TextContext(LastPartition.text_nodes)
        /\ need_image => prompt.image_documents = ImageDocuments(LastPartition.image_nodes)

\* the synthesis call has returned a response object
Responded == pc = "done" /\ synth_entry # "none" /\ outcome = "returned"

\* C22: in every synthesis branch the response returned carries the source nodes and
\* the partition metadata text_nodes and image_nodes, in the streaming branches
\* from the moment it is returned, before a delta is consumed.
C22_ResponseCarriesPartition ==
    Responded =>
        /\ resp_attrs.source_nodes = LastPartition.nodes
        /\ DictHas(resp_attrs.metadata, "text_nodes")
        /\ DictGet(resp_attrs.metadata, "text_nodes") = LastPartition.text_nodes
        /\ DictHas(resp_attrs.metadata, "image_nodes")
        /\ DictGet(resp_attrs.metadata, "image_nodes") = LastPartition.image_nodes

\* retrieve or aretrieve has returned
Retrieved == pc \in {"eng_retrieve_done", "eng_aretrieve_done"}

\* C23: in every retrieve / aretrieve call no image node is passed to a node
\* postprocessor, and the image nodes of the list returned are the partitioner's
\* image_nodes, whatever the postprocessors do to the text nodes.
C23_ImagesBypassPostprocessors ==
    /\ \A c \in DOMAIN post_calls :
          \A i \in DOMAIN post_calls[c].nodes : IsText(post_calls[c].nodes[i])
    /\ (Retrieved /\ GetImageAndTextNodes(eng_nodes).err = NoError) =>
          SelectSeq(output, IsImage) = GetImageAndTextNodes(eng_nodes).image_nodes

\* C30: on the same list of the retriever, retrieve and aretrieve return the same
\* node list for every value of the need-image flag, and every configured
\* postprocessor is applied to the text nodes in both.
C30_RetrieveSameAsAretrieve ==
    Retrieved =>
        /\ \A e \in {"retrieve", "aretrieve"} :
              /\ RetrieveOf(e, eng_nodes).err = NoError
              /\ RetrieveOf(e, eng_nodes).nodes = output
        /\ [c \in DOMAIN post_calls |-> post_calls[c].postprocessor] = node_postprocessors

====
